---- MODULE Spec2Model ----
(***************************************************************************)
(* Model of scripts/content_factory.py: the resumable level generation     *)
(* driver (main) with its helpers get_legacy_words, create_story_cache,    *)
(* generate_cyoa_content and generate_image, the persisted manifest        *)
(* stories.json, and the process being stopped and started again; of       *)
(* scripts/fill_missing_images.py (the image backfill); and of             *)
(* scripts/bible_finisher.py (the loop that completes the narrative        *)
(* bible chunk by chunk).                                                  *)
(*                                                                         *)
(* A word of the vocabulary is modelled by its (0-based) position in the   *)
(* corpus, so the corpus of n words is <<0, 1, ..., n-1>> (distinct words  *)
(* in file order).                                                         *)
(***************************************************************************)
EXTENDS Integers, Sequences, FiniteSets, TLC

\* ---------------------------------------------------------------- constants
BATCH_SIZE == 10
LEGACY_POOL_SIZE == 5
\* bible_finisher.py: the number of chapters of a complete bible
TOTAL_CHAPTERS == 500
\* bible_finisher.py: a chunk is asked for as chapters start_ch..start_ch+49
CHUNK_SPAN == 49

\* ------------------------------------------------------------------- bounds
\* the corpus holds at most MaxBatches * BATCH_SIZE words
MaxBatches == 3
\* --limit is drawn from 0..MaxLimit
MaxLimit == 2
\* --start-batch is drawn from 0..MaxStartBatch
MaxStartBatch == 2
\* no more than MaxCommits manifest writes are followed
MaxCommits == 3
\* number of different outcomes of random.sample
MaxSeed == 2
\* the narrative bible holds 0..MaxChapters chapters
MaxChapters == 2
\* generate_cyoa_content on its own: bibles of 1..MaxOutline chapters
MaxOutline == 8
\* generate_cyoa_content on its own: levels 1..MaxLevelNo
MaxLevelNo == 20
\* bible_finisher: no more than MaxAttempts chunk requests are followed
MaxAttempts == 3
\* bible_finisher: bibles that lack 0..MaxMissing of the chapters are examined
MaxMissing == 2

\* ------------------------------------------------------------------ helpers
Min(a, b) == IF a < b THEN a ELSE b

Range(s) == {s[k] : k \in 1..Len(s)}

\* Python slice s[lo:hi] for 0 <= lo, 0 <= hi
Slice(s, lo, hi) == SubSeq(s, lo + 1, Min(hi, Len(s)))

None == "None"

\* the corpus lengths examined
CorpusLens == 0..(MaxBatches * BATCH_SIZE)

\* read_vocab: the words of the csv file in file order
read_vocab(n) == [p \in 1..n |-> p - 1]

\* ---------------------------------------------------------------- responses
\* A branch of a story as far as the driver can tell branches apart: whether
\* the key is there, and the lengths of its three sentence lists.
NoBranch == [present |-> FALSE, sentences_m |-> 0, sentences_f |-> 0, en_sentences |-> 0]
EvenBranch == [present |-> TRUE, sentences_m |-> 2, sentences_f |-> 2, en_sentences |-> 2]
UnevenBranch == [present |-> TRUE, sentences_m |-> 2, sentences_f |-> 1, en_sentences |-> 2]

\* json.loads(response.text) gave a non-empty dict
EvenStory == [choice_a |-> EvenBranch, choice_b |-> EvenBranch]
UnevenStory == [choice_a |-> UnevenBranch, choice_b |-> EvenBranch]
HalfStory == [choice_a |-> EvenBranch, choice_b |-> NoBranch]

DictStories == {EvenStory, UnevenStory, HalfStory}

\* Besides a non-empty dict, a call of generate_cyoa_content can come to
\* None (the request or json.loads raised, lines 199-202), to a falsy story
\* (the text parsed to {}, [], null, 0) or to a non-empty list or string.

\* ----------------------------------------------------------------- manifest
FileMissing == [st |-> "missing", data |-> <<>>]
FileCorrupt == [st |-> "corrupt", data |-> <<>>]
FileOf(data) == [st |-> "ok", data |-> data]

\* -------------------------------------------------------------------- state
VARIABLES
  total_words,   \* len(all_vocab): the corpus on disk, the same in every run
  file,          \* stories.json (OUTPUT_JSON)
  pc,            \* where the process stands in main; "idle": no process
  limit,         \* args.limit
  start_batch,   \* args.start_batch
  bible_len,     \* len(bible_data)
  cache_name,    \* the cache handle main holds, or None
  model_used,    \* the model name main holds
  cache_log,     \* history: the outcome of each client.caches.create call
  current_data,  \* the manifest in memory
  next_level,
  processed,
  i,             \* the loop variable of main: the window start index
  legacy,        \* get_legacy_words(all_vocab, i) of the iteration
  request,       \* the last text generation request sent in this run
  image_log,     \* history: the generate_image calls of the iteration
  calls,         \* history: the generate_cyoa_content calls of this run
  images,        \* the jpg files in ASSETS_DIR that are followed, by path
  bible,         \* bible_finisher: the list bible in memory
  bible_file,    \* bible_finisher: narrative_bible.json (BIBLE_PATH)
  attempt_log,   \* history: the chunk requests of the bible_finisher run
  commits        \* history: completed writes of the manifest since Init

vars == <<total_words, file, pc, limit, start_batch, bible_len,
          cache_name, model_used, cache_log, current_data, next_level, processed, i,
          legacy, request, image_log, calls, images, bible, bible_file,
          attempt_log, commits>>

\* the state of bible_finisher
finisher == <<bible, bible_file, attempt_log>>

all_vocab == read_vocab(total_words)

models_to_try == <<"gemini-2.5-flash", "gemini-2.0-flash">>

NoRequest == [sent |-> FALSE, level |-> 0, model |-> None, cached_content |-> None,
              idx |-> 0, next_idx |-> 0]

\* ------------------------------------------------------- get_legacy_words
\* random.sample(pool, count): count entries of pool at pairwise distinct
\* positions.  The outcomes examined are the cyclic windows of pool that
\* start at position (7 * seed) mod len(pool).
\* faulty variant: the sample is drawn with replacement
random_sample_WithReplacement(pool, count, seed) ==
  [k \in 1..count |-> pool[((7 * seed) % Len(pool)) + 1]]

random_sample(pool, count, seed) ==
  [k \in 1..count |-> pool[(((7 * seed) + (k - 1)) % Len(pool)) + 1]]

\* faulty variant: the test for a first batch is left out
get_legacy_words_NoGuard(all_words, current_index, seed) ==
  LET pool == Slice(all_words, 0, current_index)
      count == Min(Len(pool), LEGACY_POOL_SIZE)
  IN  random_sample(pool, count, seed)

\* faulty variant: the pool reaches into the batch of the level itself
get_legacy_words_CurrentBatch(all_words, current_index, seed) ==
  IF current_index < BATCH_SIZE
    THEN <<>>
    ELSE LET pool == Slice(all_words, 0, current_index + BATCH_SIZE)
             count == Min(Len(pool), LEGACY_POOL_SIZE)
         IN  random_sample(pool, count, seed)

get_legacy_words(all_words, current_index, seed) ==
  IF current_index < BATCH_SIZE
    THEN <<>>
    ELSE LET pool == Slice(all_words, 0, current_index)
             count == Min(Len(pool), LEGACY_POOL_SIZE)
         IN  random_sample(pool, count, seed)

\* ------------------------------------------------------ create_story_cache
\* ok[k]: client.caches.create would succeed for models_to_try[k].
\* The candidates are tried in order (line 103); the first success returns
\* (cache.name, model_name) (line 115); when the list is exhausted the
\* function returns (None, 'gemini-2.5-flash') (line 120).  calls holds the
\* outcome of each call made, in order.
CacheOf(model_name) == "cachedContents/" \o model_name

CacheOutcomes == [1..Len(models_to_try) -> BOOLEAN]

\* faulty variant: after the loop the model of the last attempt is returned
create_story_cache_LastModel(ok) ==
  IF \E k \in 1..Len(models_to_try) : ok[k]
    THEN LET first == CHOOSE k \in 1..Len(models_to_try) :
                         ok[k] /\ \A j \in 1..(k - 1) : ~ok[j]
         IN  [cache_name |-> CacheOf(models_to_try[first]),
              model_name |-> models_to_try[first],
              calls |-> SubSeq(ok, 1, first)]
    ELSE [cache_name |-> None, model_name |-> models_to_try[Len(models_to_try)],
          calls |-> ok]

\* faulty variant: every candidate is tried, also after a success
create_story_cache_TriesAll(ok) ==
  IF \E k \in 1..Len(models_to_try) : ok[k]
    THEN LET first == CHOOSE k \in 1..Len(models_to_try) :
                         ok[k] /\ \A j \in 1..(k - 1) : ~ok[j]
         IN  [cache_name |-> CacheOf(models_to_try[first]),
              model_name |-> models_to_try[first],
              calls |-> ok]
    ELSE [cache_name |-> None, model_name |-> "gemini-2.5-flash", calls |-> ok]

create_story_cache(ok) ==
  IF \E k \in 1..Len(models_to_try) : ok[k]
    THEN LET first == CHOOSE k \in 1..Len(models_to_try) :
                         ok[k] /\ \A j \in 1..(k - 1) : ~ok[j]
         IN  [cache_name |-> CacheOf(models_to_try[first]),
              model_name |-> models_to_try[first],
              calls |-> SubSeq(ok, 1, first)]
    ELSE [cache_name |-> None, model_name |-> "gemini-2.5-flash", calls |-> ok]

\* ------------------------------------------------------------ main, set up
\* max([d.get('level', 0) for d in current_data])
MaxLevel(data) ==
  CHOOSE m \in {data[k].level : k \in 1..Len(data)} :
    \A k \in 1..Len(data) : data[k].level <= m

\* lines 243-248: current_data is [] when the file does not exist (line 245)
\* and when reading it raises (line 248); nothing is raised to main.
\* faulty variant: the read is not guarded, a file that does not parse raises
LoadManifest_NoExcept(f) ==
  IF f.st = "ok" THEN [raised |-> FALSE, data |-> f.data]
  ELSE IF f.st = "missing" THEN [raised |-> FALSE, data |-> <<>>]
  ELSE [raised |-> TRUE, data |-> <<>>]

LoadManifest(f) ==
  IF f.st = "ok"
    THEN [raised |-> FALSE, data |-> f.data]
    ELSE [raised |-> FALSE, data |-> <<>>]

\* faulty variant: the run resumes at the largest level, not after it
FirstLevel_NoIncrement(data, override) ==
  IF override > 0 THEN override
  ELSE IF data # <<>> THEN MaxLevel(data)
  ELSE 1

\* lines 250-254
FirstLevel(data, override) ==
  IF override > 0 THEN override
  ELSE IF data # <<>> THEN MaxLevel(data) + 1
  ELSE 1

\* ----------------------------------------------------- the narrative bible
\* a chapter of the bible as far as bible_finisher reads it: its number
Chapter(n) == [chapter |-> n]

\* the chapters lo..hi in order
ChapterRange(lo, hi) == [k \in 1..(hi - lo + 1) |-> Chapter(lo + k - 1)]

\* a bible file of n chapters, numbered from 1
BibleOf(n) == ChapterRange(1, n)

\* Init with the corpus length drawn from Lens and the length of the bible
\* file drawn from BibleLens
InitOf(Lens, BibleLens) ==
  /\ bible_file \in {BibleOf(n) : n \in BibleLens}
  /\ bible = <<>>
  /\ attempt_log = <<>>
  /\ total_words \in Lens
  /\ file = FileMissing
  /\ pc = "idle"
  /\ limit = 0
  /\ start_batch = 0
  /\ bible_len = 0
  /\ cache_name = None
  /\ model_used = None
  /\ cache_log = <<>>
  /\ current_data = <<>>
  /\ next_level = 0
  /\ processed = 0
  /\ i = 0
  /\ legacy = <<>>
  /\ request = NoRequest
  /\ image_log = <<>>
  /\ calls = 0
  /\ images = {}
  /\ commits = 0

\* the driver does not read bible_file (what it finds in the file is
\* bible_len), so its specifications start from one bible file
InitIn(Lens) == InitOf(Lens, {1})

\* the memory of a process that is not running
NoProcess ==
  /\ pc' = "idle"
  /\ limit' = 0
  /\ start_batch' = 0
  /\ bible_len' = 0
  /\ cache_name' = None
  /\ model_used' = None
  /\ cache_log' = <<>>
  /\ current_data' = <<>>
  /\ next_level' = 0
  /\ processed' = 0
  /\ i' = 0
  /\ legacy' = <<>>
  /\ request' = NoRequest
  /\ image_log' = <<>>
  /\ calls' = 0

\* faulty variant: the cache is set up before the bible is looked at
StartRunIn_CacheFirst(Limits, Starts, Chapters, Oks) ==
  /\ pc = "idle"
  /\ \E l \in Limits, sb \in Starts, nb \in Chapters, ok \in Oks :
       LET cache == create_story_cache(ok)
           loaded == LoadManifest(file)
       IN  /\ limit' = l
           /\ start_batch' = sb
           /\ bible_len' = nb
           /\ IF nb = 0
                THEN /\ pc' = "done"
                     /\ cache_name' = cache.cache_name
                     /\ model_used' = cache.model_name
                     /\ cache_log' = cache.calls
                     /\ UNCHANGED <<current_data, next_level, i>>
                ELSE /\ cache_name' = cache.cache_name
                     /\ model_used' = cache.model_name
                     /\ cache_log' = cache.calls
                     /\ IF loaded.raised
                          THEN /\ pc' = "crashed"
                               /\ UNCHANGED <<current_data, next_level, i>>
                          ELSE /\ current_data' = loaded.data
                               /\ next_level' = FirstLevel(loaded.data, sb)
                               /\ i' = (FirstLevel(loaded.data, sb) - 1)
                                         * BATCH_SIZE
                               /\ pc' = "loop"
  /\ processed' = 0
  /\ UNCHANGED <<total_words, finisher, images, calls, image_log, file, legacy, request, commits>>

\* main, lines 229-260: the arguments, the vocabulary and the bible are
\* read; without a bible main returns at once (lines 236-238).  Otherwise
\* the cache is set up, the manifest is loaded and the first level number
\* and window start are computed.
\* An exception that nothing catches ends the process with a traceback.
StartRunIn(Limits, Starts, Chapters, Oks) ==
  /\ pc = "idle"
  /\ \E l \in Limits, sb \in Starts, nb \in Chapters, ok \in Oks :
       LET cache == create_story_cache(ok)
           loaded == LoadManifest(file)
       IN  /\ limit' = l
           /\ start_batch' = sb
           /\ bible_len' = nb
           /\ IF nb = 0
                THEN /\ pc' = "done"
                     /\ UNCHANGED <<cache_name, model_used, cache_log,
                                    current_data, next_level, i>>
                ELSE /\ cache_name' = cache.cache_name
                     /\ model_used' = cache.model_name
                     /\ cache_log' = cache.calls
                     /\ IF loaded.raised
                          THEN /\ pc' = "crashed"
                               /\ UNCHANGED <<current_data, next_level, i>>
                          ELSE /\ current_data' = loaded.data
                               /\ next_level' = FirstLevel(loaded.data, sb)
                               /\ i' = (FirstLevel(loaded.data, sb) - 1)
                                         * BATCH_SIZE
                               /\ pc' = "loop"
  /\ processed' = 0
  /\ UNCHANGED <<total_words, finisher, images, calls, image_log, file, legacy, request, commits>>

\* ------------------------------------------------------------ main, the loop
\* the entry main builds from a story, lines 274-280
Entry(level, new_batch, legacy_words, story) ==
  [level |-> level, target_words |-> new_batch, legacy_words |-> legacy_words,
   choice_a |-> story.choice_a, choice_b |-> story.choice_b]

\* faulty variant: the chapter index is taken from the level number itself
RequestOf_LevelAsIndex(level, cache, model, nchapters) ==
  [sent |-> TRUE, level |-> level, model |-> model,
   cached_content |-> IF cache # None THEN cache ELSE None,
   idx |-> level % nchapters, next_idx |-> (level + 1) % nchapters]

\* faulty variant: the request names the preferred model whatever model
\* the cache was made with
RequestOf_PreferredModel(level, cache, model, nchapters) ==
  [sent |-> TRUE, level |-> level, model |-> models_to_try[1],
   cached_content |-> IF cache # None THEN cache ELSE None,
   idx |-> (level - 1) % nchapters, next_idx |-> level % nchapters]

\* generate_cyoa_content, lines 124-125 and 181-196: the request it sends
RequestOf(level, cache, model, nchapters) ==
  [sent |-> TRUE, level |-> level, model |-> model,
   cached_content |-> IF cache # None THEN cache ELSE None,
   idx |-> (level - 1) % nchapters, next_idx |-> level % nchapters]

\* faulty variant: the limit is tested with > instead of >=
LoopHeadIn_LimitOffByOne(Seeds) ==
  /\ pc = "loop"
  /\ IF i >= total_words \/ processed > limit
        \/ Slice(all_vocab, i, i + BATCH_SIZE) = <<>>
       THEN /\ pc' = "done"
            /\ UNCHANGED legacy
       ELSE /\ pc' = "gen"
            /\ \E seed \in Seeds :
                 legacy' = get_legacy_words(all_vocab, i, seed)
  /\ UNCHANGED <<total_words, finisher, images, calls, image_log, file, limit, start_batch,
                 bible_len,
                 cache_name, model_used, cache_log, current_data, next_level,
                 processed, i, request, commits>>

\* lines 262-268: the head of an iteration.  The range is exhausted when
\* i >= total_words; otherwise the limit is tested, and the batch and the
\* legacy words are taken.
LoopHeadIn(Seeds) ==
  /\ pc = "loop"
  /\ IF i >= total_words \/ processed >= limit
        \/ Slice(all_vocab, i, i + BATCH_SIZE) = <<>>
       THEN /\ pc' = "done"
            /\ UNCHANGED legacy
       ELSE /\ pc' = "gen"
            /\ \E seed \in Seeds :
                 legacy' = get_legacy_words(all_vocab, i, seed)
  /\ UNCHANGED <<total_words, finisher, images, calls, image_log, file, limit, start_batch,
                 bible_len,
                 cache_name, model_used, cache_log, current_data, next_level,
                 processed, i, request, commits>>

\* faulty variant: a failed attempt is repeated with the same window
GenerateFail_SameWindow ==
  /\ pc = "gen"
  /\ request' = RequestOf(next_level, cache_name, model_used, bible_len)
  /\ calls' = calls + 1
  /\ legacy' = <<>>
  /\ pc' = "loop"
  /\ UNCHANGED <<total_words, finisher, images, image_log, file, limit, start_batch, bible_len,
                 cache_name, model_used, cache_log, current_data, next_level,
                 processed, i, commits>>

\* faulty variant: a failed attempt uses up the level number
GenerateFail_SkipLevel ==
  /\ pc = "gen"
  /\ request' = RequestOf(next_level, cache_name, model_used, bible_len)
  /\ i' = i + BATCH_SIZE
  /\ next_level' = next_level + 1
  /\ legacy' = <<>>
  /\ pc' = "loop"
  /\ calls' = calls + 1
  /\ UNCHANGED <<total_words, finisher, images, image_log, file, limit, start_batch, bible_len,
                 cache_name, model_used, cache_log, current_data, processed,
                 commits>>

\* faulty variant: the manifest file is opened for writing before the
\* outcome of the generation is known
GenerateFail_FileOpened ==
  /\ pc = "gen"
  /\ request' = RequestOf(next_level, cache_name, model_used, bible_len)
  /\ i' = i + BATCH_SIZE
  /\ legacy' = <<>>
  /\ file' = FileCorrupt
  /\ pc' = "loop"
  /\ calls' = calls + 1
  /\ UNCHANGED <<total_words, finisher, images, image_log, limit, start_batch, bible_len,
                 cache_name, model_used, cache_log, current_data, next_level,
                 processed, commits>>

\* lines 271, 298-299: generate_cyoa_content returns None (lines 199-202) or
\* a falsy story; the level is skipped and the loop goes on to the next i.
GenerateFail ==
  /\ pc = "gen"
  /\ request' = RequestOf(next_level, cache_name, model_used, bible_len)
  /\ i' = i + BATCH_SIZE
  /\ legacy' = <<>>
  /\ pc' = "loop"
  /\ calls' = calls + 1
  /\ UNCHANGED <<total_words, finisher, images, image_log, file, limit, start_batch, bible_len,
                 cache_name, model_used, cache_log, current_data, next_level, processed,
                 commits>>

\* lines 271-279 with a story that is a non-empty list or a string:
\* story.get raises AttributeError, which nothing catches.
GenerateNonDict ==
  /\ pc = "gen"
  /\ request' = RequestOf(next_level, cache_name, model_used, bible_len)
  /\ pc' = "crashed"
  /\ calls' = calls + 1
  /\ UNCHANGED <<total_words, finisher, images, image_log, file, limit, start_batch, bible_len,
                 cache_name, model_used, cache_log, current_data, next_level,
                 processed, i, legacy, commits>>

\* faulty variant: the new entry replaces the manifest instead of being
\* appended to it
GenerateStoryIn_Overwrite(Stories) ==
  /\ pc = "gen"
  /\ commits < MaxCommits
  /\ request' = RequestOf(next_level, cache_name, model_used, bible_len)
  /\ \E story \in Stories :
       current_data' = Append(<<>>,
                              Entry(next_level, Slice(all_vocab, i, i + BATCH_SIZE),
                                    legacy, story))
  /\ pc' = "save"
  /\ calls' = calls + 1
  /\ UNCHANGED <<total_words, finisher, images, image_log, file, limit, start_batch, bible_len,
                 cache_name, model_used, cache_log, next_level, processed, i, legacy,
                 commits>>

\* lines 271-281: a non-empty dict came back; the entry is appended.
GenerateStoryIn(Stories) ==
  /\ pc = "gen"
  /\ commits < MaxCommits
  /\ request' = RequestOf(next_level, cache_name, model_used, bible_len)
  /\ \E story \in Stories :
       current_data' = Append(current_data,
                              Entry(next_level, Slice(all_vocab, i, i + BATCH_SIZE),
                                    legacy, story))
  /\ pc' = "save"
  /\ calls' = calls + 1
  /\ UNCHANGED <<total_words, finisher, images, image_log, file, limit, start_batch, bible_len,
                 cache_name, model_used, cache_log, next_level, processed, i, legacy,
                 commits>>

\* line 284: open(OUTPUT_JSON, 'w') truncates the file; until json.dump has
\* written the closing bracket the file does not parse.
SaveOpen ==
  /\ pc = "save"
  /\ file' = FileCorrupt
  /\ pc' = "dump"
  /\ UNCHANGED <<total_words, finisher, images, calls, image_log, limit, start_batch, bible_len,
                 cache_name, model_used, cache_log, current_data, next_level, processed,
                 i, legacy, request, commits>>

\* faulty variant: the manifest is written as it was before the append
SaveDump_BeforeAppend ==
  /\ pc = "dump"
  /\ file' = FileOf(SubSeq(current_data, 1, Len(current_data) - 1))
  /\ commits' = commits + 1
  /\ pc' = "image_a"
  /\ UNCHANGED <<total_words, finisher, images, calls, image_log, limit, start_batch, bible_len,
                 cache_name, model_used, cache_log, current_data, next_level,
                 processed, i, legacy, request>>

\* faulty variant: the image calls of a level are put off, the loop goes on
SaveDump_ImagesDeferred ==
  /\ pc = "dump"
  /\ file' = FileOf(current_data)
  /\ commits' = commits + 1
  /\ pc' = "advance"
  /\ UNCHANGED <<total_words, finisher, images, calls, image_log, limit, start_batch, bible_len,
                 cache_name, model_used, cache_log, current_data, next_level,
                 processed, i, legacy, request>>

\* line 285 and the end of the with block
SaveDump ==
  /\ pc = "dump"
  /\ file' = FileOf(current_data)
  /\ commits' = commits + 1
  /\ pc' = "image_a"
  /\ UNCHANGED <<total_words, finisher, images, calls, image_log, limit, start_batch, bible_len,
                 cache_name, model_used, cache_log, current_data, next_level, processed,
                 i, legacy, request>>

\* generate_image, lines 213-226: what a call comes to.  "saved": the
\* service returned an image and the jpg was written; "no_image": the
\* response held no image (line 224); "error": the service call raised
\* (line 225).  Every failure is caught inside, nothing is raised to main.
ImageOutcomes == {"saved", "no_image", "error"}

\* faulty variant: an error of the image service is not caught
generate_image_Uncaught(outcome) ==
  [raised |-> outcome = "error", saved |-> outcome = "saved"]

generate_image(outcome) ==
  [raised |-> FALSE, saved |-> outcome = "saved"]

\* story_{next_level}_A.jpg, story_{next_level}_B.jpg
ImagePath(level, letter) == <<level, letter>>

\* lines 288-291: one of the two guarded generate_image calls, made for the
\* entry just appended when it has the branch.  Kept holds the paths whose
\* jpg files the specification follows.
ImageCallIn(here, branch, letter, there, Outcomes, Kept) ==
  /\ pc = here
  /\ IF current_data[Len(current_data)][branch].present
       THEN \E outcome \in Outcomes :
              LET call == generate_image(outcome)
              IN  /\ image_log' = Append(image_log,
                                         [path |-> ImagePath(next_level, letter),
                                          saved |-> call.saved])
                  /\ images' = IF call.saved
                                 THEN images \cup ({ImagePath(next_level, letter)}
                                                     \cap Kept)
                                 ELSE images
                  /\ pc' = IF call.raised THEN "crashed" ELSE there
       ELSE /\ pc' = there
            /\ UNCHANGED <<image_log, images>>
  /\ UNCHANGED <<total_words, finisher, calls, file, limit, start_batch, bible_len,
                 cache_name, model_used, cache_log, current_data, next_level,
                 processed, i, legacy, request, commits>>

\* faulty variant: the level number is not advanced
Advance_SameLevel ==
  /\ pc = "advance"
  /\ next_level' = next_level
  /\ processed' = processed + 1
  /\ i' = i + BATCH_SIZE
  /\ legacy' = <<>>
  /\ image_log' = <<>>
  /\ pc' = "loop"
  /\ UNCHANGED <<total_words, finisher, images, calls, file, limit, start_batch, bible_len,
                 cache_name, model_used, cache_log, current_data, request, commits>>

\* lines 293-296 and the step of the for loop
Advance ==
  /\ pc = "advance"
  /\ next_level' = next_level + 1
  /\ processed' = processed + 1
  /\ i' = i + BATCH_SIZE
  /\ legacy' = <<>>
  /\ image_log' = <<>>
  /\ pc' = "loop"
  /\ UNCHANGED <<total_words, finisher, images, calls, file, limit, start_batch, bible_len,
                 cache_name, model_used, cache_log, current_data, request, commits>>

\* main returns (line 238 or the end of the loop) or an exception leaves
\* it, and the process exits
Exit ==
  /\ pc \in {"done", "crashed"}
  /\ NoProcess
  /\ UNCHANGED <<total_words, finisher, images, file, commits>>

\* the operator stops the process while it runs; files stay as they are
Stop ==
  /\ pc \notin {"idle", "done", "crashed"}
  /\ NoProcess
  /\ UNCHANGED <<total_words, finisher, images, file, commits>>

\* ------------------------------------------------------------ specifications
\* Spec: the driver run again and again over one corpus, with any limit and
\* any --start-batch, stopped at any point; every story that comes back is
\* well formed, random.sample gives one outcome and every image is saved;
\* the jpg files are not followed.
Init == InitIn({MaxBatches * BATCH_SIZE - BATCH_SIZE \div 2})

StartRun ==
  StartRunIn(0..MaxLimit, 0..MaxStartBatch, {0, MaxChapters}, CacheOutcomes)

LoopHead == LoopHeadIn({0})

GenerateStory == GenerateStoryIn({EvenStory})

\* lines 288-289
ImageA == ImageCallIn("image_a", "choice_a", "A", "image_b", {"saved"}, {})

\* lines 290-291
ImageB == ImageCallIn("image_b", "choice_b", "B", "advance", {"saved"}, {})

Next ==
  \/ StartRun
  \/ LoopHead
  \/ GenerateFail
  \/ GenerateNonDict
  \/ GenerateStory
  \/ SaveOpen
  \/ SaveDump
  \/ ImageA
  \/ ImageB
  \/ Advance
  \/ Exit
  \/ Stop

Spec == Init /\ [][Next]_vars

\* SpecResume: as Spec, but no run is given --start-batch.
StartResume ==
  StartRunIn(0..MaxLimit, {0}, {0, MaxChapters}, CacheOutcomes)

NextResume ==
  \/ StartResume
  \/ LoopHead
  \/ GenerateFail
  \/ GenerateNonDict
  \/ GenerateStory
  \/ SaveOpen
  \/ SaveDump
  \/ ImageA
  \/ ImageB
  \/ Advance
  \/ Exit
  \/ Stop

SpecResume == Init /\ [][NextResume]_vars

\* SpecRun: runs that find no manifest file, over corpora of every length
\* in CorpusLens, with every kind of story, every outcome of random.sample
\* and every outcome of generate_image.
InitRun == InitIn(CorpusLens)

StartFresh ==
  /\ file.st = "missing"
  /\ StartRunIn(0..MaxLimit, 0..MaxStartBatch, {0, MaxChapters}, CacheOutcomes)

LoopHeadAny == LoopHeadIn(0..(MaxSeed - 1))

GenerateAnyStory == GenerateStoryIn(DictStories)

ImageAAny == ImageCallIn("image_a", "choice_a", "A", "image_b", ImageOutcomes, {})

ImageBAny == ImageCallIn("image_b", "choice_b", "B", "advance", ImageOutcomes, {})

NextRun ==
  \/ StartFresh
  \/ LoopHeadAny
  \/ GenerateFail
  \/ GenerateNonDict
  \/ GenerateAnyStory
  \/ SaveOpen
  \/ SaveDump
  \/ ImageAAny
  \/ ImageBAny
  \/ Advance
  \/ Exit
  \/ Stop

SpecRun == InitRun /\ [][NextRun]_vars

\* SpecLimit: as SpecRun over the corpus of Init, with well formed stories,
\* no --start-batch, and a --limit that may be negative.
StartLimit ==
  /\ file.st = "missing"
  /\ StartRunIn((0 - 1)..MaxLimit, {0}, {0, MaxChapters}, CacheOutcomes)

NextLimit ==
  \/ StartLimit
  \/ LoopHead
  \/ GenerateFail
  \/ GenerateNonDict
  \/ GenerateStory
  \/ SaveOpen
  \/ SaveDump
  \/ ImageA
  \/ ImageB
  \/ Advance
  \/ Exit
  \/ Stop

SpecLimit == Init /\ [][NextLimit]_vars

\* SpecContext: generate_cyoa_content called on its own, for any level
\* number and any non-empty bible; only the request it builds is followed.
CallGenerate ==
  /\ pc = "idle"
  /\ \E level \in 1..MaxLevelNo, nchapters \in 1..MaxOutline :
       /\ next_level' = level
       /\ bible_len' = nchapters
       /\ request' = RequestOf(level, None, "gemini-2.5-flash", nchapters)
  /\ UNCHANGED <<total_words, finisher, images, calls, file, pc, limit, start_batch, cache_name,
                 model_used, cache_log, current_data, processed, i, legacy,
                 image_log, commits>>

NextContext == CallGenerate

SpecContext == Init /\ [][NextContext]_vars

\* SpecLegacy: get_legacy_words called on its own, over corpora of every
\* length in CorpusLens, for any index into the corpus and every outcome
\* of random.sample.
CallLegacy ==
  /\ pc = "idle"
  /\ \E start \in 0..(total_words - 1), seed \in 0..(MaxSeed - 1) :
       /\ i' = start
       /\ legacy' = get_legacy_words(all_vocab, start, seed)
  /\ UNCHANGED <<total_words, finisher, images, calls, file, pc, limit, start_batch, bible_len,
                 cache_name, model_used, cache_log, current_data, next_level,
                 processed, request, image_log, commits>>

NextLegacy == CallLegacy

SpecLegacy == InitRun /\ [][NextLegacy]_vars

\* ------------------------------------------------- fill_missing_images.py
\* story.get(key) on a record of the manifest
Get(story, key) == IF key \in DOMAIN story THEN story[key] ELSE None

\* story_{batch_id}.jpg
BackfillPath(batch_id) == <<batch_id, "">>

\* fill_missing_images, lines 42-51: the stories it works on.  Without the
\* manifest file, or with one that does not parse, main returns.
BackfillStories(f) == IF f.st = "ok" THEN f.data ELSE <<>>

\* lines 57-69: the files the loop asks the image service for: one per
\* story that has a batch_id and an image_prompt and no file yet
BackfillTodo(stories, on_disk) ==
  {BackfillPath(Get(stories[k], "batch_id")) :
     k \in {k \in 1..Len(stories) :
              /\ Get(stories[k], "batch_id") # None
              /\ Get(stories[k], "image_prompt") # None}} \ on_disk

\* fill_missing_images, main (lines 33-97), run while the driver does not
\* run: each file of the todo set is written when the service returns an
\* image (lines 84-87) and is not when it returns none or raises.
FillMissingImagesIn(Outcomes) ==
  /\ pc = "idle"
  /\ LET todo == BackfillTodo(BackfillStories(file), images)
     IN  \E outcome \in [todo -> Outcomes] :
           images' = images \cup {path \in todo : outcome[path] = "saved"}
  /\ pc' = "filled"
  /\ UNCHANGED <<total_words, finisher, calls, image_log, file, limit, start_batch,
                 bible_len, cache_name, model_used, cache_log, current_data,
                 next_level, processed, i, legacy, request, commits>>

\* fill_missing_images returns and its process exits
FillExit ==
  /\ pc = "filled"
  /\ NoProcess
  /\ UNCHANGED <<total_words, finisher, images, file, commits>>

\* SpecBackfill: driver runs over the corpus of Init that find no manifest
\* file and are not stopped, with every outcome of generate_image and the
\* jpg files followed, and fill_missing_images run in between with the
\* image service succeeding.
DriverPaths == Nat \X {"A", "B"}

ImageAKept ==
  ImageCallIn("image_a", "choice_a", "A", "image_b", ImageOutcomes, DriverPaths)

ImageBKept ==
  ImageCallIn("image_b", "choice_b", "B", "advance", ImageOutcomes, DriverPaths)

FillMissingImages == FillMissingImagesIn({"saved"})

NextBackfill ==
  \/ StartLimit
  \/ LoopHead
  \/ GenerateFail
  \/ GenerateNonDict
  \/ GenerateStory
  \/ SaveOpen
  \/ SaveDump
  \/ ImageAKept
  \/ ImageBKept
  \/ Advance
  \/ Exit
  \/ FillMissingImages
  \/ FillExit

SpecBackfill == Init /\ [][NextBackfill]_vars

\* ---------------------------------------------------------- bible_finisher
\* the variables bible_finisher leaves alone
driver == <<total_words, file, limit, start_batch, bible_len, cache_name,
            model_used, cache_log, current_data, next_level, processed, i,
            legacy, request, image_log, calls, images, commits>>

\* an entry without the key "chapter"
NoChapter == [location |-> "Cafe Baum"]

\* line 13: start_ch = bible[-1]["chapter"] + 1
start_ch == bible[Len(bible)].chapter + 1

\* line 15: end_ch = min(start_ch + 49, 500)
end_ch == Min(start_ch + CHUNK_SPAN, TOTAL_CHAPTERS)

\* line 13 raises: IndexError on an empty bible, KeyError on a last entry
\* without "chapter" (TypeError if the entry is no dict at all)
StartChRaises ==
  \/ bible = <<>>
  \/ "chapter" \notin DOMAIN bible[Len(bible)]

\* What json.loads(response.text) can be when bible.extend takes it
\* (line 50): a list of the chapters asked for, a list of the first of them
\* only, the empty list, or a list that ends in an entry without "chapter"
\* (extend of a JSON object leaves its keys in the bible, which ends the
\* same way).
Responses ==
  { ChapterRange(start_ch, end_ch),
    ChapterRange(start_ch, start_ch),
    <<>>,
    <<Chapter(start_ch), NoChapter>> }

AttemptOf(failed, added) ==
  [start_ch |-> start_ch, end_ch |-> end_ch, failed |-> failed, added |-> added]

\* lines 9-10: the bible is loaded
StartFinisher ==
  /\ pc = "idle"
  /\ bible' = bible_file
  /\ pc' = "fin_loop"
  /\ UNCHANGED <<driver, bible_file, attempt_log>>

\* line 12 finds len(bible) >= 500: the loop is left, line 60
FinisherComplete ==
  /\ pc = "fin_loop"
  /\ Len(bible) >= TOTAL_CHAPTERS
  /\ pc' = "complete"
  /\ UNCHANGED <<driver, finisher>>

\* line 13 raises outside the try statement: the process dies
FinisherCrash ==
  /\ pc = "fin_loop"
  /\ Len(bible) < TOTAL_CHAPTERS
  /\ StartChRaises
  /\ pc' = "crashed"
  /\ UNCHANGED <<driver, finisher>>

\* faulty variant: the chapters that did arrive are kept in memory
ChunkFail_KeepsPart ==
  /\ pc = "fin_loop"
  /\ Len(bible) < TOTAL_CHAPTERS
  /\ ~StartChRaises
  /\ Len(attempt_log) < MaxAttempts
  /\ attempt_log' = Append(attempt_log, AttemptOf(TRUE, 0))
  /\ bible' = Append(bible, Chapter(start_ch))
  /\ pc' = "fin_loop"
  /\ UNCHANGED <<driver, bible_file>>

\* An iteration whose request, json.loads or extend raises (the service
\* fails, the text is no JSON, the JSON is a number or null): lines 56-58
\* print and continue.
ChunkFail ==
  /\ pc = "fin_loop"
  /\ Len(bible) < TOTAL_CHAPTERS
  /\ ~StartChRaises
  /\ Len(attempt_log) < MaxAttempts
  /\ attempt_log' = Append(attempt_log, AttemptOf(TRUE, 0))
  /\ pc' = "fin_loop"
  /\ UNCHANGED <<driver, bible, bible_file>>

\* An iteration that gets through the try statement: the bible is extended
\* (line 50) and written to BIBLE_PATH (lines 52-53).
ChunkExtend ==
  /\ pc = "fin_loop"
  /\ Len(bible) < TOTAL_CHAPTERS
  /\ ~StartChRaises
  /\ Len(attempt_log) < MaxAttempts
  /\ \E new_chapters \in Responses :
       /\ bible' = bible \o new_chapters
       /\ bible_file' = bible \o new_chapters
       /\ attempt_log' = Append(attempt_log, AttemptOf(FALSE, Len(new_chapters)))
  /\ pc' = "fin_loop"
  /\ UNCHANGED driver

\* SpecBible: one run of bible_finisher on a bible file of consecutive
\* chapters that is complete, lacks up to MaxMissing chapters, or holds
\* the first chapter only.
BibleLens == {1} \cup ((TOTAL_CHAPTERS - MaxMissing)..TOTAL_CHAPTERS)

InitBible == InitOf({0}, BibleLens)

NextBible ==
  \/ StartFinisher
  \/ FinisherComplete
  \/ FinisherCrash
  \/ ChunkFail
  \/ ChunkExtend

SpecBible == InitBible /\ [][NextBible]_vars

\* ==================================================================== claims
\* the records the driver has committed: in memory and in stories.json
Manifests == {current_data, file.data}

\* corpus[(N-1)*BATCH_SIZE : N*BATCH_SIZE]
LevelSlice(N) == Slice(all_vocab, (N - 1) * BATCH_SIZE, N * BATCH_SIZE)

\* C1: every level record the driver commits has, for its level number N,
\* target_words equal to corpus[(N-1)*BATCH_SIZE : N*BATCH_SIZE], in any run
\* and after any sequence of successful and failed generation attempts.
C1_TargetWordsAreLevelSlice ==
  \A data \in Manifests : \A k \in 1..Len(data) :
    data[k].target_words = LevelSlice(data[k].level)

\* C2: a response in which the three sentence sequences of a branch differ
\* in length is never committed: every committed level has equal-length
\* sentence sequences in both branches.
EvenSentences(branch) ==
  branch.present =>
    /\ branch.sentences_m = branch.sentences_f
    /\ branch.sentences_f = branch.en_sentences

C2_CommittedBranchesEven ==
  \A data \in Manifests : \A k \in 1..Len(data) :
    EvenSentences(data[k].choice_a) /\ EvenSentences(data[k].choice_b)

\* C3: after N successful commits, spread over any number of runs, process
\* restarts and failed attempts, reloading the persisted manifest and
\* computing the next level number with no override yields N+1.
C3_ResumeAtCommitsPlusOne ==
  pc = "idle" => FirstLevel(LoadManifest(file).data, 0) = commits + 1

\* C4: stopping and resuming without --start-batch neither loses nor
\* duplicates content: no corpus slice is the target_words of two committed
\* levels, and no corpus slice before a committed level's slice is left
\* without a committed level.
CorpusSlice(b) == Slice(all_vocab, b * BATCH_SIZE, (b + 1) * BATCH_SIZE)

SliceCommitted(data, b) ==
  \E k \in 1..Len(data) : data[k].target_words = CorpusSlice(b)

C4_NoLossNoDuplication ==
  \A data \in Manifests :
    /\ \A j, k \in 1..Len(data) :
         j # k => data[j].target_words # data[k].target_words
    /\ \A k \in 1..Len(data) : \A b \in 0..MaxBatches :
         (b * BATCH_SIZE < data[k].target_words[1]) => SliceCommitted(data, b)

\* C5: when stories.json is missing or cannot be parsed, loading yields the
\* empty manifest and the run goes on (to level 1 when there is no
\* override) instead of aborting.
C5_UnreadableManifestLoadsEmpty ==
  [][ (pc = "idle" /\ pc' # "idle" /\ file.st # "ok" /\ bible_len' # 0)
        => /\ pc' = "loop"
           /\ current_data' = <<>>
           /\ (start_batch' = 0 => next_level' = 1) ]_vars

C5_Witness ==
  /\ file.st = "corrupt"
  /\ pc = "gen"
  /\ current_data = <<>>
  /\ start_batch = 0
  /\ next_level = 1

\* C6: if every cache creation attempt fails, create_story_cache raises
\* nothing and returns no handle with the fallback model name, and the
\* driver still generates and commits, its requests carrying no handle.
Fallback == "gemini-2.5-flash"

AllCacheCallsFailed ==
  /\ Len(cache_log) = Len(models_to_try)
  /\ \A k \in 1..Len(cache_log) : ~cache_log[k]

C6_InlineContextWhenCacheFails ==
  AllCacheCallsFailed =>
    \* the failures did not end the process: it goes on to its first request
    /\ pc = "crashed" => request.sent
    /\ cache_name = None
    /\ model_used = Fallback
    /\ request.sent => (request.cached_content = None /\ request.model = Fallback)

C6_Witness ==
  /\ AllCacheCallsFailed
  /\ pc = "image_a"
  /\ request.cached_content = None
  /\ file.st = "ok"
  /\ file.data[Len(file.data)].level = request.level

\* C7: the first level number of a run is --start-batch when that is
\* positive, else 1 + the largest level number of the loaded manifest when
\* it is not empty, else 1; a manifest of levels 1..3 and no override start
\* the run at level 4.
Levels(data) == [k \in 1..Len(data) |-> data[k].level]

C7_FirstLevelRule ==
  (pc = "loop" /\ processed = 0) =>
    /\ start_batch > 0 => next_level = start_batch
    /\ (start_batch = 0 /\ current_data # <<>>) =>
         /\ \E k \in 1..Len(current_data) : next_level = current_data[k].level + 1
         /\ \A k \in 1..Len(current_data) : next_level > current_data[k].level
    /\ (start_batch = 0 /\ current_data = <<>>) => next_level = 1
    /\ (start_batch = 0 /\ Levels(current_data) = <<1, 2, 3>>) => next_level = 4

C7_Witness ==
  /\ pc = "loop"
  /\ processed = 0
  /\ start_batch = 0
  /\ Levels(current_data) = <<1, 2, 3>>
  /\ next_level = 4

\* C8: from an empty manifest and with every text generation succeeding, a
\* run with limit L over a corpus of n words commits exactly the levels
\* 1..min(L, ceil(n / BATCH_SIZE)) in increasing order, level k with
\* target_words corpus[(k-1)*BATCH_SIZE : k*BATCH_SIZE] and legacy_words
\* taken only from corpus[0 : (k-1)*BATCH_SIZE].
CeilDiv(n, d) == (n + d - 1) \div d

\* a run that has ended without a failed attempt and without an override:
\* every window from 0 on went to a level
CleanRunDone ==
  /\ pc = "done"
  /\ bible_len # 0
  /\ start_batch = 0
  /\ i = (next_level - 1) * BATCH_SIZE

C8_FreshRunCommitsLevelsInOrder ==
  CleanRunDone =>
    LET count == Min(limit, CeilDiv(total_words, BATCH_SIZE))
    IN  /\ Len(current_data) = count
        /\ processed = count
        /\ count > 0 => file = FileOf(current_data)
        /\ \A k \in 1..Len(current_data) :
             /\ current_data[k].level = k
             /\ current_data[k].target_words = LevelSlice(k)
             /\ Range(current_data[k].legacy_words)
                  \subseteq Range(Slice(all_vocab, 0, (k - 1) * BATCH_SIZE))

C8_Witness ==
  /\ CleanRunDone
  /\ total_words = 25
  /\ limit = 2
  /\ Levels(current_data) = <<1, 2>>
  /\ current_data[2].target_words = <<10, 11, 12, 13, 14, 15, 16, 17, 18, 19>>
  /\ Len(current_data[2].legacy_words) = LEGACY_POOL_SIZE

\* C9 as claimed: for every committed level N >= 2, legacy_words is a
\* subset of the union of the target_words of the committed levels 1..N-1,
\* has no duplicate entry and at most LEGACY_POOL_SIZE entries, also after
\* failed attempts and after runs started with --start-batch.
NoDuplicates(seq) ==
  \A j, k \in 1..Len(seq) : j # k => seq[j] # seq[k]

EarlierTargets(data, N) ==
  UNION {Range(data[j].target_words) :
           j \in {j \in 1..Len(data) : data[j].level < N}}

C9_LegacyFromCommittedLevels ==
  \A data \in Manifests : \A k \in 1..Len(data) :
    data[k].level >= 2 =>
      /\ Range(data[k].legacy_words) \subseteq EarlierTargets(data, data[k].level)
      /\ NoDuplicates(data[k].legacy_words)
      /\ Len(data[k].legacy_words) <= LEGACY_POOL_SIZE

\* C9 as amended: for every committed level, legacy_words holds words of the
\* corpus that come before the level's target_words (whether or not a level
\* was committed for them), has no duplicate entry and at most
\* LEGACY_POOL_SIZE entries.
C9_LegacyFromCorpusPrefix ==
  \A data \in Manifests : \A k \in 1..Len(data) :
    /\ Range(data[k].legacy_words)
         \subseteq Range(Slice(all_vocab, 0, data[k].target_words[1]))
    /\ NoDuplicates(data[k].legacy_words)
    /\ Len(data[k].legacy_words) <= LEGACY_POOL_SIZE

C9_Witness ==
  /\ start_batch = 2
  /\ file.st = "ok"
  /\ Levels(file.data) = <<2>>
  /\ Len(file.data[1].legacy_words) = LEGACY_POOL_SIZE

\* C10: the manifest with the new level in it is in stories.json before the
\* first image call for that level, so a stop during the image calls leaves
\* the level's text in the file.
ImageCalls == {"image_a", "image_b"}

HoldsLevel(f, entry) ==
  /\ f.st = "ok"
  /\ f.data # <<>>
  /\ f.data[Len(f.data)] = entry

C10_ManifestWrittenBeforeImages ==
  [][ /\ pc' \in ImageCalls =>
           /\ file' = FileOf(current_data')
           /\ HoldsLevel(file', current_data'[Len(current_data')])
           /\ current_data'[Len(current_data')].level = next_level'
      /\ (pc \in ImageCalls /\ pc' = "idle") =>
           HoldsLevel(file', current_data[Len(current_data)]) ]_vars

C10_Witness ==
  /\ pc = "image_b"
  /\ HoldsLevel(file, current_data[Len(current_data)])
  /\ current_data[Len(current_data)].level = next_level

\* C11: a failed image fetch (service error or no image returned) for
\* either branch of a level leaves the level as it is in the manifest in
\* memory and in stories.json and does not stop the run: the driver goes on
\* to the next level and counts the level as processed.
Last(seq) == seq[Len(seq)]

FailedImage(log) == \E k \in 1..Len(log) : ~log[k].saved

C11_FailedImageKeepsLevel ==
  [][ /\ (image_log' # image_log /\ image_log' # <<>> /\ ~Last(image_log').saved) =>
           /\ pc' \in {"image_b", "advance"}
           /\ current_data' = current_data
           /\ file' = file
           /\ HoldsLevel(file', Last(current_data'))
           /\ Last(current_data').level = next_level'
      /\ (pc = "advance" /\ FailedImage(image_log) /\ pc' # "idle") =>
           /\ pc' = "loop"
           /\ next_level' = next_level + 1
           /\ processed' = processed + 1
           /\ current_data' = current_data
           /\ file' = file
           /\ HoldsLevel(file', Last(current_data')) ]_vars

C11_Witness ==
  /\ pc = "advance"
  /\ Len(image_log) = 2
  /\ ~image_log[1].saved
  /\ ~image_log[2].saved
  /\ HoldsLevel(file, Last(current_data))
  /\ Last(current_data).level = next_level

\* C12: when text generation for a level fails (generate_cyoa_content
\* returns None) the manifest in memory and stories.json are left exactly as
\* they were before the attempt, and no image call is made for that level.
C12_FailedGenerationLeavesManifest ==
  [][ (pc = "gen" /\ pc' = "loop") =>
        /\ request'.sent
        /\ current_data' = current_data
        /\ file' = file
        /\ commits' = commits
        /\ image_log = <<>>
        /\ image_log' = <<>> ]_vars

C12_Witness ==
  /\ pc = "loop"
  /\ request.sent
  /\ request.level = next_level
  /\ i > (next_level - 1) * BATCH_SIZE
  /\ file = FileOf(current_data)
  /\ Levels(current_data) = <<1>>
  /\ image_log = <<>>

\* C13: a run ends when the number of levels committed in the run reaches
\* the limit or when the window start index reaches the corpus length, and
\* a run whose initial window start index is at or beyond the corpus length
\* commits nothing.  (Runs that find no narrative bible are left aside.)
RunEnded == pc \in {"done", "crashed"} /\ bible_len # 0

\* start_index of the run, line 259: next_level has grown by processed
StartIndex == (next_level - processed - 1) * BATCH_SIZE

C13_RunEndsAtLimitOrCorpusEnd ==
  /\ RunEnded => (processed >= limit \/ i >= total_words)
  /\ (pc # "idle" /\ bible_len # 0 /\ StartIndex >= total_words) =>
       (processed = 0 /\ ~request.sent)

\* C14: a single run never commits more than --limit levels; with a limit
\* of 0 or less it commits none and makes no text generation call.
\* (In SpecLimit every commit since Init is a commit of the run in progress.)
C14_AtMostLimitCommits ==
  pc # "idle" =>
    /\ limit > 0 => commits <= limit
    /\ limit <= 0 => (commits = 0 /\ ~request.sent /\ current_data = <<>>)
    /\ file.st = "ok" => Len(file.data) = commits

C14_Witness ==
  /\ pc = "done"
  /\ limit = 2
  /\ commits = 2
  /\ file = FileOf(current_data)
  /\ Len(current_data) = 2
  /\ i < total_words

\* C15 as claimed: in every reachable manifest the level numbers are
\* positive, pairwise distinct and in increasing order starting at 1, for
\* any sequence of runs including runs that pass a positive --start-batch.
C15_LevelsIncreasingFromOne ==
  \A data \in Manifests :
    /\ \A k \in 1..Len(data) : data[k].level > 0
    /\ \A j, k \in 1..Len(data) : j < k => data[j].level < data[k].level
    /\ data # <<>> => data[1].level = 1

\* C15 as amended: every level number is positive.  A run without a
\* positive --start-batch gives each level it commits a number larger than
\* every level number already in the manifest, 1 on an empty manifest; a run
\* with --start-batch S starts at S whatever the manifest holds; within a
\* run the numbers are consecutive.
C15_LevelsIncreasingWithinRun ==
  [][ (pc = "gen" /\ pc' = "save") =>
        LET new == Last(current_data')
        IN  /\ current_data' = Append(current_data, new)
            /\ new.level > 0
            /\ (start_batch <= 0 /\ current_data = <<>>) => new.level = 1
            /\ start_batch <= 0 =>
                 \A k \in 1..Len(current_data) : current_data[k].level < new.level
            /\ (start_batch > 0 /\ processed = 0) => new.level = start_batch
            /\ processed > 0 => new.level = Last(current_data).level + 1 ]_vars

C15_Witness ==
  /\ pc = "image_a"
  /\ start_batch = 0
  /\ processed = 0
  /\ Levels(current_data) = <<2, 3>>
  /\ file = FileOf(current_data)

\* C16: stopping the process at any point keeps the levels committed before
\* recoverable: whenever no process runs, loading stories.json gives every
\* level committed so far; a stop in the middle of a level, the rewrite of
\* the manifest included, loses at most that level's images.
C16_StopKeepsCommittedLevels ==
  pc = "idle" => Len(LoadManifest(file).data) = commits

\* C17: the manifest is append-only.  The run starts from the manifest as
\* loaded; each commit persists the previously loaded or persisted manifest
\* followed by exactly one new level; no other step of the driver changes
\* the manifest in memory or stories.json.
C17_ManifestAppendOnly ==
  [][ /\ (pc = "idle" /\ pc' = "loop") =>
           current_data' = LoadManifest(file).data
      /\ (pc = "gen" /\ pc' = "save") =>
           /\ Len(current_data') = Len(current_data) + 1
           /\ current_data' = Append(LoadManifest(file).data, Last(current_data'))
      /\ (pc = "dump" /\ pc' = "image_a") =>
           /\ file' = FileOf(current_data)
           /\ commits' = commits + 1
      /\ (current_data' # current_data /\ pc' # "idle") =>
           ((pc = "idle" /\ pc' = "loop") \/ (pc = "gen" /\ pc' = "save"))
      /\ file' # file => pc \in {"save", "dump"} ]_vars

C17_Witness ==
  /\ pc = "image_a"
  /\ processed = 1
  /\ Levels(file.data) = <<1, 2, 3>>
  /\ file = FileOf(current_data)

\* C18: control flow is strictly sequential per level.  A level goes through
\* text generation, manifest commit, image call for branch A, image call for
\* branch B, in that order, and the text generation of the next level
\* starts only after all of them have finished.
Paths(log) == [k \in 1..Len(log) |-> log[k].path]

BranchPaths(entry) ==
  (IF entry.choice_a.present THEN <<ImagePath(entry.level, "A")>> ELSE <<>>)
    \o (IF entry.choice_b.present THEN <<ImagePath(entry.level, "B")>> ELSE <<>>)

C18_LevelsStrictlySequential ==
  [][ /\ pc' = "gen" => (pc = "loop" /\ image_log' = <<>>)
      /\ (request' # request /\ pc' # "idle") =>
           (pc = "gen" /\ request'.level = next_level)
      /\ pc' = "save" =>
           (pc = "gen" /\ Last(current_data').level = request'.level)
      /\ pc' = "dump" => pc = "save"
      /\ pc' = "image_a" => (pc = "dump" /\ file' = FileOf(current_data'))
      /\ pc' = "image_b" => pc = "image_a"
      /\ pc' = "advance" =>
           /\ pc = "image_b"
           /\ file' = FileOf(current_data')
           /\ Paths(image_log') = BranchPaths(Last(current_data'))
      /\ processed' > processed =>
           /\ pc = "advance"
           /\ pc' = "loop"
           /\ next_level' = Last(current_data').level + 1 ]_vars

C18_Witness ==
  /\ pc = "gen"
  /\ processed = 1
  /\ next_level = 2
  /\ Levels(current_data) = <<1>>
  /\ file = FileOf(current_data)
  /\ image_log = <<>>

\* C19: create_story_cache tries the candidate models in their order, goes
\* on to the next candidate only after the current one failed, stops at the
\* first success, and so creates at most one cache handle per run.
CacheSetUp == pc # "idle" /\ bible_len # 0

C19_CacheCandidatesInOrder ==
  CacheSetUp =>
    LET n == Len(cache_log)
    IN  /\ n \in 1..Len(models_to_try)
        /\ \A k \in 1..(n - 1) : ~cache_log[k]
        /\ Cardinality({k \in 1..n : cache_log[k]}) <= 1
        /\ cache_log[n] =>
             /\ cache_name = CacheOf(models_to_try[n])
             /\ model_used = models_to_try[n]
        /\ ~cache_log[n] =>
             /\ n = Len(models_to_try)
             /\ cache_name = None

C19_Witness ==
  /\ pc = "loop"
  /\ cache_log = <<FALSE, TRUE>>
  /\ cache_name = CacheOf("gemini-2.0-flash")
  /\ model_used = "gemini-2.0-flash"

\* C20: the cache handle and the model name of every text generation
\* request of a run are bound to each other: with a handle, the request
\* carries that handle and the model the handle was created with; without
\* one, the request carries no handle and names the fallback model.
C20_RequestBoundToCache ==
  request.sent =>
    /\ request.cached_content = cache_name
    /\ request.model = model_used
    /\ cache_name # None =>
         /\ \E k \in 1..Len(cache_log) :
              /\ cache_log[k]
              /\ request.cached_content = CacheOf(models_to_try[k])
              /\ request.model = models_to_try[k]
    /\ cache_name = None =>
         /\ request.cached_content = None
         /\ request.model = Fallback

C20_Witness ==
  /\ request.sent
  /\ pc = "save"
  /\ cache_log = <<FALSE, TRUE>>
  /\ request.cached_content = CacheOf("gemini-2.0-flash")
  /\ request.model = "gemini-2.0-flash"

\* C21: with a missing or empty narrative bible the run ends before any
\* work: no cache creation call, no text generation request, no retry, and
\* stories.json is left as it is.
C21_NoBibleNoWork ==
  [][ /\ (pc = "idle" /\ pc' # "idle" /\ bible_len' = 0) =>
           /\ pc' = "done"
           /\ cache_log' = <<>>
           /\ cache_name' = None
           /\ ~request'.sent
           /\ processed' = 0
           /\ file' = file
           /\ commits' = commits
      /\ (pc # "idle" /\ bible_len = 0) =>
           /\ pc' = "idle"
           /\ file' = file
           /\ commits' = commits ]_vars

C21_Witness ==
  /\ pc = "done"
  /\ bible_len = 0
  /\ limit = 1
  /\ cache_log = <<>>
  /\ ~request.sent
  /\ file.st = "ok"
  /\ Levels(file.data) = <<1, 2>>

\* C22: for every level >= 1 and bible of n >= 1 chapters the current
\* chapter is chapters[(level-1) mod n] and the destination chapter is
\* chapters[level mod n], wrapping around when the level exceeds n, so the
\* destination of level N is the current chapter of level N+1.
\* k is the remainder of m on division by n
IsRemainder(k, m, n) ==
  /\ k \in 0..(n - 1)
  /\ \E q \in 0..m : m = q * n + k

C22_CurrentAndNextChapter ==
  request.sent =>
    LET N == request.level
        n == bible_len
    IN  /\ IsRemainder(request.idx, N - 1, n)
        /\ IsRemainder(request.next_idx, N, n)
        /\ N <= n => request.idx = N - 1
        /\ N < n => request.next_idx = N
        /\ N = n => request.next_idx = 0
        /\ request.next_idx = RequestOf(N + 1, None, None, n).idx

C22_Witness ==
  /\ request.sent
  /\ bible_len = 3
  /\ request.level = 6
  /\ request.idx = 2
  /\ request.next_idx = 0

\* C23: the driver commits only complete levels: every level record of the
\* manifest has both branch records, choice_a and choice_b; a response that
\* parses but lacks a branch is not committed.
C23_CommittedLevelsComplete ==
  \A data \in Manifests : \A k \in 1..Len(data) :
    data[k].choice_a.present /\ data[k].choice_b.present

\* C24: after a generation failure for level number N the next generation
\* attempt of the run is again for level number N, and the number of
\* consecutive attempts for one level number is bounded: the run ends when
\* the windows of the corpus are used up.
\* the window of the first attempt for next_level in this run
FirstWindow ==
  IF processed > 0
    THEN Last(current_data).target_words[1] + BATCH_SIZE
    ELSE StartIndex

\* the failed attempts for next_level made so far in this run
FailedAttempts == (i - FirstWindow) \div BATCH_SIZE

C24_FailedLevelTriedAgain ==
  [][ /\ (pc = "gen" /\ pc' = "loop") =>
           /\ request'.level = next_level
           /\ next_level' = next_level
           /\ FailedAttempts' = FailedAttempts + 1
      /\ (pc = "gen" /\ pc' # "idle") =>
           /\ request'.level = next_level
           /\ FailedAttempts > 0 => request.level = request'.level
           /\ FailedAttempts < CeilDiv(total_words, BATCH_SIZE)
      /\ (pc = "loop" /\ i >= total_words) => pc' \in {"done", "idle"} ]_vars

C24_Witness ==
  /\ pc = "done"
  /\ processed = 0
  /\ next_level = 1
  /\ FailedAttempts = 3
  /\ request.level = 1
  /\ i >= total_words
  /\ current_data = <<>>

\* C25: get_legacy_words(corpus, start) returns the empty sequence when
\* start < BATCH_SIZE, and otherwise exactly min(LEGACY_POOL_SIZE, start)
\* entries taken from distinct positions of corpus[0:start].
\* (In SpecLegacy i is the start of the last call and legacy its result.)
\* the words of the corpus are distinct: a word has one position
PositionsOf(word) == {p \in 1..total_words : all_vocab[p] = word}

C25_LegacyWordsOfPrefix ==
  /\ i < BATCH_SIZE => legacy = <<>>
  /\ i >= BATCH_SIZE =>
       /\ Len(legacy) = Min(LEGACY_POOL_SIZE, i)
       /\ \A k \in 1..Len(legacy) :
            \E p \in PositionsOf(legacy[k]) : p \in 1..i
       /\ \A j, k \in 1..Len(legacy) :
            j # k => PositionsOf(legacy[j]) \cap PositionsOf(legacy[k]) = {}

C25_Witness ==
  /\ total_words = 14
  /\ i = 13
  /\ legacy = <<7, 8, 9, 10, 11>>

\* C26: a failed generation attempt changes neither the next level number
\* nor the count of processed levels, but the corpus window advances by
\* BATCH_SIZE for the following attempt; hence the number of text
\* generation calls of a run is at most the number of BATCH_SIZE windows
\* between the initial window start and the end of the corpus.
Windows ==
  IF StartIndex < total_words
    THEN CeilDiv(total_words - StartIndex, BATCH_SIZE)
    ELSE 0

C26_CallsBoundedByWindows ==
  [][ /\ (pc = "gen" /\ pc' = "loop") =>
           /\ next_level' = next_level
           /\ processed' = processed
           /\ i' = i + BATCH_SIZE
           /\ calls' = calls + 1
      /\ (pc' # "idle" /\ bible_len' # 0) => calls' <= Windows' ]_vars

C26_Witness ==
  /\ pc = "done"
  /\ total_words = 25
  /\ StartIndex = 0
  /\ limit = 2
  /\ processed = 1
  /\ calls = 3
  /\ i >= total_words

\* C27: a committed level whose image fetch failed is recovered by the
\* backfill pass: after fill_missing_images has run on the manifest the
\* driver wrote, with the image service succeeding, every branch of every
\* level of the manifest has its image file.
C27_BackfillRestoresImages ==
  pc = "filled" =>
    \A k \in 1..Len(file.data) :
      /\ file.data[k].choice_a.present =>
           ImagePath(file.data[k].level, "A") \in images
      /\ file.data[k].choice_b.present =>
           ImagePath(file.data[k].level, "B") \in images

\* C28: in bible_finisher a failed chunk request leaves the bible as it was
\* in memory and on disk and stays in the loop, the request after a failed
\* one asks for the same start chapter, the loop is left only with a bible
\* of at least 500 entries, and a run that made a request ends only after
\* a request that succeeded with a non-empty chunk.
C28_FailedChunkRetriedUnchanged ==
  [][ LET attempted == Len(attempt_log') = Len(attempt_log) + 1
          made == attempt_log'[Len(attempt_log')]
      IN  /\ (attempted /\ made.failed) =>
               /\ bible' = bible
               /\ bible_file' = bible_file
               /\ pc' = "fin_loop"
          /\ (attempted /\ attempt_log # <<>> /\ Last(attempt_log).failed) =>
               made.start_ch = Last(attempt_log).start_ch
          /\ pc' = "complete" => Len(bible') >= TOTAL_CHAPTERS
          /\ (pc' \in {"complete", "crashed"} /\ attempt_log' # <<>>) =>
               \E k \in 1..Len(attempt_log') :
                 ~attempt_log'[k].failed /\ attempt_log'[k].added > 0 ]_vars

\* a run on a bible of 499 chapters whose first request fails, whose second
\* one brings an empty chunk and whose third one completes the bible
C28_Witness ==
  /\ pc = "complete"
  /\ Len(attempt_log) = 3
  /\ attempt_log[1].failed
  /\ ~attempt_log[2].failed /\ attempt_log[2].added = 0
  /\ attempt_log[3].added = 1
  /\ \A k \in 1..3 : attempt_log[k].start_ch = TOTAL_CHAPTERS
  /\ Len(bible) = TOTAL_CHAPTERS
  /\ bible_file = bible

====
